---- MODULE Spec2Model ----
(***************************************************************************)
(* State-machine model of the PomodoroTimer React component                *)
(* (src/unnamed/part_001, the later revision of                            *)
(* src/components/PomodoroTimer.tsx; both have the same handlers).         *)
(*                                                                         *)
(* One action per event handler.  React commits the state updates of a     *)
(* handler and re-runs the effects that depend on them before the next     *)
(* event is handled, so each action contains the handler, the render and   *)
(* the re-run of the interval effect.                                      *)
(*                                                                         *)
(* Spec starts from a first visit (nothing in localStorage), SpecReturning *)
(* from a visit that finds a stored block and a stored user.  SpecStored   *)
(* applies the functions of the log (dailySummaries, generateCSV) to       *)
(* stored logs drawn from a bounded set, and SpecTicking lets a running    *)
(* timer tick with no user event.  SpecFormat applies the two formatting   *)
(* functions to arguments drawn from bounded sets, and SpecNonTimer runs   *)
(* the handlers that are not timer controls (the exports included) from    *)
(* every state of the timer.                                               *)
(*                                                                         *)
(* lastCall, completions and saves are history variables: they record what *)
(* the handlers did and are read by no handler.  The menu flags            *)
(* (exportMenuOpen, mobileMenuOpen, isLogin), which change no other state, *)
(* are left out; the exports are actions of SpecStored and SpecNonTimer.   *)
(***************************************************************************)
EXTENDS Integers, Sequences, FiniteSets, TLC

\* ------------------------------------------------------------------ bounds

\* A page load is followed up to its MaxSaves-th saved block.
MaxSaves == 1

\* Longest run of consecutive ticks whose result is compared with R - N.
MaxTicks == 3

\* Values of `time` at which the user presses "Save Block".
SaveMoments == {0, 1200, 1500, 3000}

\* Texts the user types into the title and notes inputs.
Titles == {"", "t"}
Notes == {"", "n"}

\* Identifiers and passwords submitted in the login form (both `required`).
Emails == {"a", "b"}
Passwords == {"p", "q"}

\* Instants returned by new Date() at a save, counted in half days.
Timestamps == {2}

\* Logs found in localStorage at a page load: up to MaxStored blocks saved by
\* earlier page loads, in the order of their instants.  A text is "" or one
\* element: a run of ordinary characters, a double quote, a comma or a
\* line feed.
MaxStored == 2
StoredTimestamps == {0, 1, 2}
StoredDurations == {300, 1500}
StoredTitles == {"t", "\"", ","}
StoredNotes == {"", "\n"}

\* Saves followed in a run of the handlers that are not timer controls.
MaxSavesInARow == 2

\* The apps exportToMarkdownApp is called with.
Apps == {"bear", "apple-notes", "obsidian"}

\* Arguments formatTime is applied to: every time and duration of either
\* mode, and their negatives.
FormatInputs == (0 - (50 * 60))..(50 * 60)

\* Totals formatHoursMinutes is applied to: the totals of a day with up to
\* two blocks, each of a duration between 0 and 50 * 60.
SummaryTotals == 0..(2 * (50 * 60))

\* ------------------------------------------------------------- constants

ShortLength == 25 * 60
LongLength == 50 * 60

\* `null` for the user state, and a missing localStorage key.
NoUser == [none |-> TRUE]
Absent == [absent |-> TRUE]

\* ------------------------------------------------------------------ state

VARIABLES
    time,            \* useState<number>(25 * 60): remaining seconds
    isRunning,       \* useState<boolean>(false)
    isLongSession,   \* useState<boolean>(false)
    title,           \* useState<string>('')
    notes,           \* useState<string>('')
    savedBlocks,     \* useState<TimerBlock[]>([])
    isSoundEnabled,  \* useState<boolean>(true)
    user,            \* useState<User | null>(null)
    interval,        \* number of live setInterval handles
    localStorage,    \* the two keys 'pomodoroBlocks' and 'user'
    lastCall,        \* the call of playSound, resetTimer, toggleSessionLength
                     \* or saveBlock made by the most recent step, if any
    completions,     \* runs of the callback's else-branch since the last start
    saves            \* blocks saved since the start of the run

vars == <<time, isRunning, isLongSession, title, notes, savedBlocks,
          isSoundEnabled, user, interval, localStorage, lastCall,
          completions, saves>>

\* ---------------------------------------------------------------- helpers

\* isLongSession ? 50 * 60 : 25 * 60   (resetTimer)
FullLength(long) == IF long THEN LongLength ELSE ShortLength

\* Faulty variant: the length of the mode being left.
NextLengthStale(long) == IF long THEN LongLength ELSE ShortLength
\* isLongSession ? 25 * 60 : 50 * 60   (toggleSessionLength)
NextLength(long) == IF long THEN ShortLength ELSE LongLength

\* Faulty variant: always measured from the long length.
DurationFromLong(long, t) == LongLength - t
\* duration: isLongSession ? 50 * 60 - time : 25 * 60 - time
Duration(long, t) == IF long THEN LongLength - t ELSE ShortLength - t

\* Faulty variant: no floor at 0.
TickTimeNoFloor(prevTime) == prevTime - 1
\* The updater of setTime in the interval callback: the new time.
TickTime(prevTime) == IF prevTime > 0 THEN prevTime - 1 ELSE 0

\* The time after n firings of the callback with nothing in between.
RECURSIVE TickN(_, _)
TickN(t, n) == IF n = 0 THEN t ELSE TickN(TickTime(t), n - 1)

\* Faulty variant: no resetTimer() at 0.
TimeAfterToggleNoReset(t, long) == t
\* toggleTimer: `if (time === 0) resetTimer()` decides the time it leaves.
TimeAfterToggle(t, long) == IF t = 0 THEN FullLength(long) ELSE t

\* Faulty variant: the guard is missing.
RefusedNever(u) == FALSE
\* saveBlock: `if (!user) return`
Refused(u) == u = NoUser

\* Faulty variant: [newBlock, ...savedBlocks]
PrependBlock(blocks, b) == <<b>> \o blocks
\* [...savedBlocks, newBlock]
AppendBlock(blocks, b) == Append(blocks, b)

\* JSON.stringify / JSON.parse of a value made of strings, numbers, arrays
\* and objects: the text is kept as a tagged value.
JSONstringify(v) == [json |-> v]
JSONparse(s) == s.json

\* playSound(): plays the audio only if sound is enabled.
playSound(enabled) == IF enabled THEN "sound" ELSE "silent"

\* Faulty variant: the cleanup does not clear the old handle.
IntervalEffectNoCleanup(handles, wasRunning, changed, running) ==
    IF ~changed THEN handles
    ELSE handles + (IF running THEN 1 ELSE 0)
\* The interval effect: the live handles after a render.  It is re-run only
\* when isRunning or isSoundEnabled changed; then the cleanup of the earlier
\* run clears the handle that run had set (it had set one iff it ran with
\* isRunning), and the body sets a new one iff isRunning.
IntervalEffect(handles, wasRunning, changed, running) ==
    IF ~changed THEN handles
    ELSE (handles - (IF wasRunning THEN 1 ELSE 0)) + (IF running THEN 1 ELSE 0)

\* The decimal digits, and Number.prototype.toString for an integer n >= 0:
\* the text is a sequence of characters.
Digits == <<"0", "1", "2", "3", "4", "5", "6", "7", "8", "9">>
RECURSIVE toString(_)
toString(n) ==
    IF n < 10 THEN <<Digits[n + 1]>>
    ELSE toString(n \div 10) \o <<Digits[(n % 10) + 1]>>

\* Faulty variant: nothing is padded.
padStartNone(text, targetLength, padString) == text
\* String.prototype.padStart with a one-character padString.
RECURSIVE padStart(_, _, _)
padStart(text, targetLength, padString) ==
    IF Len(text) >= targetLength THEN text
    ELSE padStart(<<padString>> \o text, targetLength, padString)

\* Math.abs
abs(x) == IF x < 0 THEN -x ELSE x

\* formatTime: `${seconds < 0 ? '-' : ''}${mins padded}:${secs padded}`
formatTime(seconds) ==
    LET mins == abs(seconds) \div 60
        secs == abs(seconds) % 60
    IN (IF seconds < 0 THEN <<"-">> ELSE <<>>)
         \o padStart(toString(mins), 2, "0")
         \o <<":">>
         \o padStart(toString(secs), 2, "0")

\* Math.round(n / d) for integers n >= 0 and d > 0 (halves round up).
MathRound(n, d) == ((2 * n) + d) \div (2 * d)

\* formatHoursMinutes: `${hours}:${minutes.toString().padStart(2, '0')}`
formatHoursMinutes(seconds) ==
    LET hours == seconds \div 3600
        minutes == MathRound(seconds % 3600, 60)
    IN toString(hours) \o <<":">> \o padStart(toString(minutes), 2, "0")

\* new Date(timestamp).toLocaleDateString() and .toLocaleString() (en-US:
\* "date, time"): an instant is a number of half days, so two instants of
\* one day have the same date.
toLocaleDateString(timestamp) == toString(timestamp \div 2)
toLocaleString(timestamp) ==
    toLocaleDateString(timestamp) \o <<",", " ">> \o toString(timestamp % 2)

\* Faulty variant: the total the date already has is dropped.
AddDurationOverwrite(total, duration) == duration
\* (summaries[date] || 0) + block.duration, given summaries[date] || 0
AddDuration(total, duration) == total + duration

\* summaries[date] = (summaries[date] || 0) + duration, on the entries of the
\* object in the order their keys were inserted (the order of Object.entries).
RECURSIVE AddToSummaries(_, _, _)
AddToSummaries(summaries, date, duration) ==
    IF summaries = <<>>
      THEN <<[date |-> date, totalDuration |-> AddDuration(0, duration)]>>
    ELSE IF Head(summaries).date = date
      THEN <<[date |-> date,
              totalDuration |->
                AddDuration(Head(summaries).totalDuration, duration)]>>
           \o Tail(summaries)
    ELSE <<Head(summaries)>> \o AddToSummaries(Tail(summaries), date, duration)

\* savedBlocks.forEach(...) of dailySummaries, from the summaries so far.
RECURSIVE forEachBlock(_, _)
forEachBlock(blocks, summaries) ==
    IF blocks = <<>> THEN summaries
    ELSE forEachBlock(Tail(blocks),
                      AddToSummaries(summaries,
                                     toLocaleDateString(Head(blocks).timestamp),
                                     Head(blocks).duration))

\* The useMemo value dailySummaries: the {date, totalDuration} records.
dailySummaries(blocks) == forEachBlock(blocks, <<>>)

\* The characters of a text of the model ("" or one element).
Chars(text) == IF text = "" THEN <<>> ELSE <<text>>

\* Array.prototype.join of texts.
RECURSIVE join(_, _)
join(parts, separator) ==
    IF parts = <<>> THEN <<>>
    ELSE IF Len(parts) = 1 THEN parts[1]
    ELSE parts[1] \o separator \o join(Tail(parts), separator)

\* cell => `"${cell}"`
QuoteCell(cell) == <<"\"">> \o cell \o <<"\"">>

\* The line generateCSV makes of one block.
CSVRow(block) ==
    LET cells == <<toLocaleString(block.timestamp),
                   formatTime(block.duration),
                   Chars(block.title),
                   Chars(block.notes)>>
    IN join([i \in 1..4 |-> QuoteCell(cells[i])], <<",">>)

\* csvContent of generateCSV.
csvContent(blocks) ==
    LET headers == <<<<"Timestamp">>, <<"Duration">>, <<"Title">>, <<"Notes">>>>
    IN join(<<join(headers, <<",">>)>>
              \o [i \in 1..Len(blocks) |-> CSVRow(blocks[i])],
            <<"\n">>)

\* The markdown exportToMarkdownApp makes of one block (a template literal).
MarkdownOf(block) ==
    <<"\n", "#", " ">> \o Chars(block.title)
      \o <<"\n", "\n", "-", " ", "Duration", ":", " ">>
      \o formatTime(block.duration)
      \o <<"\n", "-", " ", "Timestamp", ":", " ">>
      \o toLocaleString(block.timestamp)
      \o <<"\n", "\n">> \o Chars(block.notes)
      \o <<"\n", "\n", "#", "pomodoro", "\n">>

\* markdownContent of exportToMarkdownApp.
markdownContent(blocks) ==
    join([i \in 1..Len(blocks) |-> MarkdownOf(blocks[i])],
         <<"\n", "-", "-", "-", "\n">>)

\* encodeURIComponent: letters, digits and "-" are kept, every other
\* character of the texts of the model becomes its escape.
EncodeChar(c) ==
    CASE c = "\n" -> "%0A"
      [] c = " " -> "%20"
      [] c = "\"" -> "%22"
      [] c = "#" -> "%23"
      [] c = "," -> "%2C"
      [] c = ":" -> "%3A"
      [] OTHER -> c
encodeURIComponent(text) == [i \in 1..Len(text) |-> EncodeChar(text[i])]

\* The url exportToMarkdownApp builds for an app.
AppUrl(app, encodedContent) ==
    <<CASE app = "bear" -> "bear://x-callback-url/create?text="
        [] app = "apple-notes" -> "mobilenotes://x-callback-url/create?text="
        [] OTHER -> "obsidian://new?content=">>
      \o encodedContent

\* The record kept in lastCall: the function called, the handler that called
\* it, isRunning before the step and what the call did.
Call(fn, by, result) ==
    [fn |-> fn, by |-> by, wasRunning |-> isRunning, result |-> result]
NoCall == [fn |-> "none", by |-> "none", wasRunning |-> FALSE, result |-> ""]

\* ------------------------------------------------------------------- init

\* A block saved by an earlier page load (short mode, at time 0).
OldBlock == [timestamp |-> 1, duration |-> ShortLength,
             title |-> "old", notes |-> ""]

\* The mount effect: each localStorage key is loaded when it is present;
\* otherwise the useState default stays.
LoadBlocks(storage) ==
    IF storage.pomodoroBlocks # Absent
      THEN JSONparse(storage.pomodoroBlocks) ELSE <<>>
LoadUser(storage) ==
    IF storage.user # Absent THEN JSONparse(storage.user) ELSE NoUser

\* The state after construction and the mount effect.
Mounted(storage) ==
    /\ time = ShortLength
    /\ isRunning = FALSE
    /\ isLongSession = FALSE
    /\ title = ""
    /\ notes = ""
    /\ savedBlocks = LoadBlocks(storage)
    /\ isSoundEnabled = TRUE
    /\ user = LoadUser(storage)
    /\ interval = IntervalEffect(0, FALSE, TRUE, FALSE)
    /\ localStorage = storage
    /\ lastCall = NoCall
    /\ completions = 0
    /\ saves = 0

\* First visit: nothing persisted.
Init == Mounted([pomodoroBlocks |-> Absent, user |-> Absent])

\* A later visit: one block and the user persisted by an earlier page load.
InitReturning ==
    Mounted([pomodoroBlocks |-> JSONstringify(<<OldBlock>>),
             user |-> JSONstringify([email |-> "a"])])

\* ---------------------------------------------------------------- actions

\* Faulty variant of the callback: at 0 it only returns 0.
TickNeverStops ==
    /\ interval > 0
    /\ time' = TickTime(time)
    /\ lastCall' = NoCall
    /\ UNCHANGED <<isRunning, isLongSession, title, notes, savedBlocks,
                   isSoundEnabled, user, interval, localStorage, completions,
                   saves>>

\* The setInterval callback: setTime(prevTime => ...).
Tick ==
    /\ interval > 0
    /\ time' = TickTime(time)
    /\ IF time > 0
         THEN /\ isRunning' = isRunning
              /\ lastCall' = NoCall
              /\ completions' = completions
         ELSE /\ isRunning' = FALSE
              /\ lastCall' = Call("playSound", "tick", playSound(isSoundEnabled))
              /\ completions' = completions + 1
    /\ interval' = IntervalEffect(interval, isRunning, isRunning' # isRunning,
                                  isRunning')
    /\ UNCHANGED <<isLongSession, title, notes, savedBlocks, isSoundEnabled,
                   user, localStorage, saves>>

\* toggleTimer: resetTimer() if time is 0, then setIsRunning(!isRunning)
\* with the isRunning of the render the handler was created in.
ToggleTimer ==
    /\ time' = TimeAfterToggle(time, isLongSession)
    /\ isRunning' = ~isRunning
    /\ interval' = IntervalEffect(interval, isRunning, isRunning' # isRunning,
                                  isRunning')
    /\ lastCall' = IF time = 0 THEN Call("resetTimer", "toggleTimer", "")
                               ELSE NoCall
    /\ completions' = IF isRunning THEN completions ELSE 0
    /\ UNCHANGED <<isLongSession, title, notes, savedBlocks, isSoundEnabled,
                   user, localStorage, saves>>

\* Faulty variant of resetTimer: setIsRunning(false) is missing.
ResetTimerKeepsRunning ==
    /\ isRunning' = isRunning
    /\ time' = FullLength(isLongSession)
    /\ interval' = IntervalEffect(interval, isRunning, isRunning' # isRunning,
                                  isRunning')
    /\ lastCall' = Call("resetTimer", "resetTimer", "")
    /\ UNCHANGED <<isLongSession, title, notes, savedBlocks, isSoundEnabled,
                   user, localStorage, completions, saves>>

\* resetTimer, as the handler of the reset button.
ResetTimer ==
    /\ isRunning' = FALSE
    /\ time' = FullLength(isLongSession)
    /\ interval' = IntervalEffect(interval, isRunning, isRunning' # isRunning,
                                  isRunning')
    /\ lastCall' = Call("resetTimer", "resetTimer", "")
    /\ UNCHANGED <<isLongSession, title, notes, savedBlocks, isSoundEnabled,
                   user, localStorage, completions, saves>>

ToggleSessionLength ==
    /\ isLongSession' = ~isLongSession
    /\ time' = NextLength(isLongSession)
    /\ isRunning' = FALSE
    /\ interval' = IntervalEffect(interval, isRunning, isRunning' # isRunning,
                                  isRunning')
    /\ lastCall' = Call("toggleSessionLength", "toggleSessionLength", "")
    /\ UNCHANGED <<title, notes, savedBlocks, isSoundEnabled, user,
                   localStorage, completions, saves>>

\* onClick={() => setIsSoundEnabled(!isSoundEnabled)}; the interval effect
\* depends on isSoundEnabled and is re-run.
ToggleSound ==
    /\ isSoundEnabled' = ~isSoundEnabled
    /\ interval' = IntervalEffect(interval, isRunning, TRUE, isRunning)
    /\ lastCall' = NoCall
    /\ UNCHANGED <<time, isRunning, isLongSession, title, notes, savedBlocks,
                   user, localStorage, completions, saves>>

\* onChange={(e) => setTitle(e.target.value)}
SetTitle ==
    /\ \E t \in Titles \ {title} : title' = t
    /\ lastCall' = NoCall
    /\ UNCHANGED <<time, isRunning, isLongSession, notes, savedBlocks,
                   isSoundEnabled, user, interval, localStorage, completions,
                   saves>>

\* onChange={(e) => setNotes(e.target.value)}
SetNotes ==
    /\ \E n \in Notes \ {notes} : notes' = n
    /\ lastCall' = NoCall
    /\ UNCHANGED <<time, isRunning, isLongSession, title, savedBlocks,
                   isSoundEnabled, user, interval, localStorage, completions,
                   saves>>

\* Faulty variant of saveBlock: the list before the save is persisted.
SaveBlockPersistsOld ==
    /\ time \in SaveMoments
    /\ IF Refused(user)
         THEN /\ lastCall' = Call("saveBlock", "saveBlock", "refused")
              /\ UNCHANGED <<savedBlocks, localStorage, title, notes, saves>>
         ELSE \E now \in Timestamps :
                LET newBlock == [timestamp |-> now,
                                 duration |-> Duration(isLongSession, time),
                                 title |-> title,
                                 notes |-> notes]
                IN /\ savedBlocks' = AppendBlock(savedBlocks, newBlock)
                   /\ localStorage' =
                        [localStorage EXCEPT
                           !.pomodoroBlocks = JSONstringify(savedBlocks)]
                   /\ title' = ""
                   /\ notes' = ""
                   /\ lastCall' = Call("saveBlock", "saveBlock", "saved")
                   /\ saves' = saves + 1
    /\ UNCHANGED <<time, isRunning, isLongSession, isSoundEnabled, user,
                   interval, completions>>

\* Faulty variant of saveBlock: a save also resets the timer.
SaveBlockResetsTimer ==
    /\ time \in SaveMoments
    /\ IF Refused(user)
         THEN /\ lastCall' = Call("saveBlock", "saveBlock", "refused")
              /\ UNCHANGED <<savedBlocks, localStorage, title, notes, saves,
                             time, isRunning, interval>>
         ELSE \E now \in Timestamps :
                LET newBlock == [timestamp |-> now,
                                 duration |-> Duration(isLongSession, time),
                                 title |-> title,
                                 notes |-> notes]
                    updatedBlocks == AppendBlock(savedBlocks, newBlock)
                IN /\ savedBlocks' = updatedBlocks
                   /\ localStorage' =
                        [localStorage EXCEPT
                           !.pomodoroBlocks = JSONstringify(updatedBlocks)]
                   /\ title' = ""
                   /\ notes' = ""
                   /\ lastCall' = Call("saveBlock", "saveBlock", "saved")
                   /\ saves' = saves + 1
                   /\ isRunning' = FALSE
                   /\ time' = FullLength(isLongSession)
                   /\ interval' = IntervalEffect(interval, isRunning,
                                                 isRunning' # isRunning,
                                                 isRunning')
    /\ UNCHANGED <<isLongSession, isSoundEnabled, user, completions>>

\* saveBlock.  The user presses the button only at SaveMoments.
SaveBlock ==
    /\ time \in SaveMoments
    /\ IF Refused(user)
         THEN /\ lastCall' = Call("saveBlock", "saveBlock", "refused")
              /\ UNCHANGED <<savedBlocks, localStorage, title, notes, saves>>
         ELSE \E now \in Timestamps :
                LET newBlock == [timestamp |-> now,
                                 duration |-> Duration(isLongSession, time),
                                 title |-> title,
                                 notes |-> notes]
                    updatedBlocks == AppendBlock(savedBlocks, newBlock)
                IN /\ savedBlocks' = updatedBlocks
                   /\ localStorage' =
                        [localStorage EXCEPT
                           !.pomodoroBlocks = JSONstringify(updatedBlocks)]
                   /\ title' = ""
                   /\ notes' = ""
                   /\ lastCall' = Call("saveBlock", "saveBlock", "saved")
                   /\ saves' = saves + 1
    /\ UNCHANGED <<time, isRunning, isLongSession, isSoundEnabled, user,
                   interval, completions>>

\* Faulty variant: the password is kept in the user object.
NewUserWithPassword(email, password) ==
    [email |-> email, password |-> password]
\* const newUser = { email }, of the email and password states.
NewUser(email, password) == [email |-> email]

\* handleAuth, with the email and password the form holds at the submit.
Submit(email, password) ==
    /\ user = NoUser
    /\ LET newUser == NewUser(email, password)
       IN /\ user' = newUser
          /\ localStorage' =
               [localStorage EXCEPT !.user = JSONstringify(newUser)]
    /\ lastCall' = NoCall
    /\ UNCHANGED <<time, isRunning, isLongSession, title, notes, savedBlocks,
                   isSoundEnabled, interval, completions, saves>>

\* handleAuth: the form is rendered only while no user is logged in; both
\* inputs are `required`.
HandleAuth == \E email \in Emails, password \in Passwords : Submit(email, password)

\* Faulty variant of handleLogout: the stored user is not removed.
HandleLogoutKeepsStored ==
    /\ user # NoUser
    /\ user' = NoUser
    /\ lastCall' = NoCall
    /\ UNCHANGED <<time, isRunning, isLongSession, title, notes, savedBlocks,
                   isSoundEnabled, interval, localStorage, completions, saves>>

\* Faulty variant of handleLogout: the log goes with the user.
HandleLogoutClearsLog ==
    /\ user # NoUser
    /\ user' = NoUser
    /\ savedBlocks' = <<>>
    /\ localStorage' = [pomodoroBlocks |-> Absent, user |-> Absent]
    /\ lastCall' = NoCall
    /\ UNCHANGED <<time, isRunning, isLongSession, title, notes,
                   isSoundEnabled, interval, completions, saves>>

\* handleLogout: the button is rendered only while a user is logged in.
HandleLogout ==
    /\ user # NoUser
    /\ user' = NoUser
    /\ localStorage' = [localStorage EXCEPT !.user = Absent]
    /\ lastCall' = NoCall
    /\ UNCHANGED <<time, isRunning, isLongSession, title, notes, savedBlocks,
                   isSoundEnabled, interval, completions, saves>>

\* Faulty variant of the reload: the timer state survives it.
ReloadKeepsTimer ==
    /\ UNCHANGED <<time, isRunning, isLongSession, interval>>
    /\ title' = ""
    /\ notes' = ""
    /\ savedBlocks' = LoadBlocks(localStorage)
    /\ isSoundEnabled' = TRUE
    /\ user' = LoadUser(localStorage)
    /\ lastCall' = Call("mount", "mount", "")
    /\ completions' = 0
    /\ UNCHANGED <<localStorage, saves>>

\* The page is reloaded: the component is unmounted (the cleanup of the
\* interval effect clears the handle) and constructed and mounted again;
\* only localStorage survives.
Reload ==
    /\ time' = ShortLength
    /\ isRunning' = FALSE
    /\ isLongSession' = FALSE
    /\ title' = ""
    /\ notes' = ""
    /\ savedBlocks' = LoadBlocks(localStorage)
    /\ isSoundEnabled' = TRUE
    /\ user' = LoadUser(localStorage)
    /\ interval' = IntervalEffect(interval, isRunning, TRUE, FALSE)
    /\ lastCall' = Call("mount", "mount", "")
    /\ completions' = 0
    /\ UNCHANGED <<localStorage, saves>>

\* One event at a time (a single event loop), until MaxSaves blocks are saved.
Next ==
    /\ saves < MaxSaves
    /\ \/ Tick
       \/ ToggleTimer
       \/ ResetTimer
       \/ ToggleSessionLength
       \/ ToggleSound
       \/ SetTitle
       \/ SetNotes
       \/ SaveBlock
       \/ HandleAuth
       \/ HandleLogout
       \/ Reload

Spec == Init /\ [][Next]_vars

SpecReturning == InitReturning /\ [][Next]_vars

\* generateCSV: the file offered for download holds csvContent; no state of
\* the component changes.  The export buttons are rendered only while
\* savedBlocks.length > 0.
GenerateCSV ==
    /\ savedBlocks # <<>>
    /\ lastCall' = Call("generateCSV", "generateCSV", csvContent(savedBlocks))
    /\ UNCHANGED <<time, isRunning, isLongSession, title, notes, savedBlocks,
                   isSoundEnabled, user, interval, localStorage, completions,
                   saves>>

\* A page load that finds a stored log and the stored user "a".
StoredBlocks == [timestamp : StoredTimestamps, duration : StoredDurations,
                 title : StoredTitles, notes : StoredNotes]
StoredLogs ==
    {log \in UNION {[1..n -> StoredBlocks] : n \in 0..MaxStored} :
       \A i \in 1..(Len(log) - 1) : log[i].timestamp <= log[i + 1].timestamp}
InitStored ==
    \E log \in StoredLogs :
      Mounted([pomodoroBlocks |-> JSONstringify(log),
               user |-> JSONstringify([email |-> "a"])])

\* The handlers that read or extend the log.
NextStored ==
    /\ saves < MaxSaves
    /\ \/ GenerateCSV
       \/ SaveBlock
       \/ SetTitle

SpecStored == InitStored /\ [][NextStored]_vars

\* formatTime applied to one argument; the call and its text are recorded.
FormatTime ==
    /\ \E seconds \in FormatInputs :
         lastCall' = Call("formatTime", "render",
                          [seconds |-> seconds, text |-> formatTime(seconds)])
    /\ UNCHANGED <<time, isRunning, isLongSession, title, notes, savedBlocks,
                   isSoundEnabled, user, interval, localStorage, completions,
                   saves>>

\* formatHoursMinutes applied to the total of one daily summary.
FormatHoursMinutes ==
    /\ \E seconds \in SummaryTotals :
         lastCall' = Call("formatHoursMinutes", "render",
                          [seconds |-> seconds,
                           text |-> formatHoursMinutes(seconds)])
    /\ UNCHANGED <<time, isRunning, isLongSession, title, notes, savedBlocks,
                   isSoundEnabled, user, interval, localStorage, completions,
                   saves>>

\* One application per run: each run formats one argument.
NextFormat ==
    /\ lastCall = NoCall
    /\ \/ FormatTime
       \/ FormatHoursMinutes

SpecFormat == Init /\ [][NextFormat]_vars

\* A timer that is running, in either mode, at any remaining time, with the
\* sound on or off.
InitRunning ==
    \E long \in BOOLEAN, sound \in BOOLEAN :
      \E t \in 0..FullLength(long) :
        /\ time = t
        /\ isRunning = TRUE
        /\ isLongSession = long
        /\ title = ""
        /\ notes = ""
        /\ savedBlocks = <<>>
        /\ isSoundEnabled = sound
        /\ user = NoUser
        /\ interval = IntervalEffect(0, FALSE, TRUE, TRUE)
        /\ localStorage = [pomodoroBlocks |-> Absent, user |-> Absent]
        /\ lastCall = NoCall
        /\ completions = 0
        /\ saves = 0

\* No user event: only the interval fires.
NextTicking == Tick

\* setInterval fires its callback every 1000 ms for as long as the handle is
\* live: a tick that stays possible is eventually delivered.
SpecTicking == InitRunning /\ [][NextTicking]_vars /\ WF_vars(Tick)

\* exportToMarkdownApp: window.location.href is set to a url of the app's
\* scheme, which hands the url to the app and leaves the page loaded; no
\* state of the component changes.
ExportToMarkdownApp ==
    /\ savedBlocks # <<>>
    /\ \E app \in Apps :
         lastCall' =
           Call("exportToMarkdownApp", app,
                AppUrl(app, encodeURIComponent(markdownContent(savedBlocks))))
    /\ UNCHANGED <<time, isRunning, isLongSession, title, notes, savedBlocks,
                   isSoundEnabled, user, interval, localStorage, completions,
                   saves>>

\* A first visit on which the timer controls have brought the timer to some
\* state: either mode, any remaining time, running or stopped.
InitAnyTimer ==
    \E long \in BOOLEAN, running \in BOOLEAN :
      \E t \in 0..FullLength(long) :
        /\ time = t
        /\ isRunning = running
        /\ isLongSession = long
        /\ title = ""
        /\ notes = ""
        /\ savedBlocks = <<>>
        /\ isSoundEnabled = TRUE
        /\ user = NoUser
        /\ interval = IntervalEffect(0, FALSE, TRUE, running)
        /\ localStorage = [pomodoroBlocks |-> Absent, user |-> Absent]
        /\ lastCall = NoCall
        /\ completions = 0
        /\ saves = 0

\* The handlers that are not timer controls, with no tick between them,
\* until MaxSavesInARow blocks are saved.
NextNonTimer ==
    /\ saves < MaxSavesInARow
    /\ \/ SaveBlock
       \/ HandleAuth
       \/ HandleLogout
       \/ ToggleSound
       \/ GenerateCSV
       \/ ExportToMarkdownApp

SpecNonTimer == InitAnyTimer /\ [][NextNonTimer]_vars

\* ----------------------------------------------------------------- claims

\* C1: in the state right after a tick that brings the remaining time from
\* 1 to 0, the timer is stopped and that same tick has called playSound,
\* which played the audio iff sound is enabled.
C1_TickToZeroCompletes ==
    [][(Tick /\ time = 1) =>
         /\ ~isRunning'
         /\ lastCall'.fn = "playSound"
         /\ (lastCall'.result = "sound") <=> isSoundEnabled]_vars

\* C2: toggleTimer invoked while running stops the timer and leaves the
\* remaining time unchanged, whatever the remaining time is (0 included).
C2_PauseKeepsTime ==
    [][(isRunning /\ ToggleTimer) => (~isRunning' /\ time' = time)]_vars

\* C3: every log entry a step creates (or changes) has a duration between 0
\* and the full length of the mode active at that step; the log starts
\* empty, so every entry of the log was created by such a step.
C3_DurationWithinLength ==
    [][\A i \in 1..Len(savedBlocks') :
         (i > Len(savedBlocks) \/ savedBlocks'[i] # savedBlocks[i]) =>
           /\ savedBlocks'[i].duration >= 0
           /\ savedBlocks'[i].duration <= (IF isLongSession THEN 3000 ELSE 1500)
      ]_vars

\* A block saved in long mode at time 0: its duration is the whole 3000.
C3_Witness ==
    /\ lastCall.fn = "saveBlock" /\ lastCall.result = "saved"
    /\ isLongSession /\ time = 0
    /\ savedBlocks[Len(savedBlocks)].duration = 3000

\* C4: saveBlock with no user logged in changes neither the log, nor the
\* persisted data, nor the timer, nor the title and notes inputs.
C4_SaveWithoutUserIsNoOp ==
    [][(user = NoUser /\ SaveBlock) =>
         UNCHANGED <<savedBlocks, localStorage, time, isRunning,
                     isLongSession, title, notes>>]_vars

\* saveBlock has just returned early, with text typed and the timer running.
C4_Witness ==
    /\ lastCall.fn = "saveBlock" /\ lastCall.result = "refused"
    /\ user = NoUser
    /\ title = "t" /\ notes = "n"
    /\ isRunning /\ time = 1200

\* C5: saveBlock with a user logged in appends exactly one entry at the end
\* of the log, with duration = full length of the mode - remaining time and
\* the title and notes typed, persists the new list and clears both inputs.
C5_SaveAppendsEntry ==
    [][(user # NoUser /\ SaveBlock) =>
         /\ \E now \in Timestamps :
              savedBlocks' =
                savedBlocks \o
                  <<[timestamp |-> now,
                     duration |-> (IF isLongSession THEN 3000 ELSE 1500) - time,
                     title |-> title,
                     notes |-> notes]>>
         /\ localStorage'.pomodoroBlocks = [json |-> savedBlocks']
         /\ title' = "" /\ notes' = ""]_vars

\* The example of the claim: short mode, 1200 s remaining, after an older
\* entry: the new entry is the last one and its duration is 300.
C5_Witness ==
    /\ lastCall.fn = "saveBlock" /\ lastCall.result = "saved"
    /\ ~isLongSession /\ time = 1200
    /\ Len(savedBlocks) = 2
    /\ savedBlocks[1] = OldBlock
    /\ savedBlocks[2].duration = 300
    /\ savedBlocks[2].title = "t" /\ savedBlocks[2].notes = "n"
    /\ title = "" /\ notes = ""
    /\ localStorage.pomodoroBlocks = [json |-> savedBlocks]

\* C6: toggleSessionLength, in any state, flips the mode, sets the remaining
\* time to the new mode's full length and stops the timer.
C6_SetModeResets ==
    [][ToggleSessionLength =>
         /\ isLongSession' = ~isLongSession
         /\ time' = (IF isLongSession' THEN 3000 ELSE 1500)
         /\ ~isRunning']_vars

\* The mode was switched to long while the timer was running.
C6_Witness ==
    /\ lastCall.fn = "toggleSessionLength" /\ lastCall.wasRunning
    /\ isLongSession /\ time = 3000 /\ ~isRunning

\* C7: toggleTimer invoked while stopped starts the timer; the remaining
\* time becomes the mode's full length if it was 0 and is unchanged otherwise.
C7_StartResetsAtZero ==
    [][(~isRunning /\ ToggleTimer) =>
         /\ isRunning'
         /\ time' = (IF time # 0 THEN time
                     ELSE IF isLongSession THEN 3000 ELSE 1500)]_vars

\* The timer was started at 0 in long mode: it runs from 3000.
C7_Witness ==
    /\ lastCall.fn = "resetTimer" /\ lastCall.by = "toggleTimer"
    /\ ~lastCall.wasRunning
    /\ isRunning /\ isLongSession /\ time = 3000

\* C8: resetTimer, in any state, stops the timer and sets the remaining time
\* to the current mode's full length; the mode and the log are unchanged.
C8_ResetRestoresFullLength ==
    [][ResetTimer =>
         /\ ~isRunning'
         /\ time' = (IF isLongSession THEN 3000 ELSE 1500)
         /\ UNCHANGED <<isLongSession, savedBlocks>>]_vars

\* The reset button was pressed while running in long mode, with a block saved.
C8_Witness ==
    /\ lastCall.fn = "resetTimer" /\ lastCall.by = "resetTimer"
    /\ lastCall.wasRunning
    /\ isLongSession /\ time = 3000 /\ ~isRunning
    /\ savedBlocks # <<>>

\* C9: N ticks in a row applied to a remaining time R >= N leave R - N
\* (for every reachable R and N up to MaxTicks), each tick being one
\* application of the updater; a tick at 0 leaves 0, never a negative time.
C9_TickDecrements ==
    /\ [](\A n \in 0..MaxTicks : n <= time => TickN(time, n) = time - n)
    /\ [][Tick => /\ time > 0 => time' = time - 1
                  /\ time = 0 => time' = 0
                  /\ time' >= 0]_vars

\* A tick ran at 0, after a whole countdown of ticks, and left 0.
C9_Witness ==
    /\ lastCall.fn = "playSound" /\ lastCall.by = "tick"
    /\ time = 0

\* C10: a countdown that has reached 0 completes exactly once before the
\* timer is started again: the completion is never repeated, it is never
\* skipped (the remaining time leaves 0 only after it), and ticks leave the
\* remaining time at 0.
C10_CompletesExactlyOnce ==
    [][/\ completions' <= 1
       /\ (time = 0 /\ time' # 0) => completions = 1
       /\ (Tick /\ time = 0) => time' = 0]_vars

\* C11: the log is append-only and its entries never change: over every
\* step (reload included) the log before is a prefix of the log after.
C11_LogAppendOnly ==
    [][/\ Len(savedBlocks) <= Len(savedBlocks')
       /\ \A i \in 1..Len(savedBlocks) : savedBlocks'[i] = savedBlocks[i]]_vars

\* A block was saved in long mode after the stored one, which is still first.
C11_Witness ==
    /\ Len(savedBlocks) = 2
    /\ savedBlocks[1] = OldBlock
    /\ savedBlocks[2].duration = 1800
    /\ lastCall.fn = "saveBlock"

\* C12: the daily summaries hold exactly one record for each distinct
\* calendar date of the log (and none for another date), and the total of a
\* record is the sum of the durations of the entries of that date.
C12_DailySummaries ==
    LET summaries == dailySummaries(savedBlocks)
        n == Len(savedBlocks)
        dateOf(i) == toLocaleDateString(savedBlocks[i].timestamp)
        RECURSIVE total(_, _)
        total(date, i) ==
            IF i = 0 THEN 0
            ELSE total(date, i - 1)
                   + (IF dateOf(i) = date THEN savedBlocks[i].duration ELSE 0)
    IN /\ \A i \in 1..n :
            \E k \in 1..Len(summaries) : summaries[k].date = dateOf(i)
       /\ \A k \in 1..Len(summaries) :
            /\ \E i \in 1..n : dateOf(i) = summaries[k].date
            /\ \A j \in 1..Len(summaries) :
                 summaries[j].date = summaries[k].date => j = k
            /\ summaries[k].totalDuration = total(summaries[k].date, n)

\* Two stored entries of one day (300 s and 1500 s) and an entry saved the
\* next day: two records, the first with the total 1800.
C12_Witness ==
    /\ lastCall.fn = "saveBlock" /\ lastCall.result = "saved"
    /\ Len(savedBlocks) = 3
    /\ savedBlocks[1].timestamp = 0 /\ savedBlocks[1].duration = 300
    /\ savedBlocks[2].timestamp = 1 /\ savedBlocks[2].duration = 1500
    /\ dailySummaries(savedBlocks) =
         <<[date |-> <<"0">>, totalDuration |-> 1800],
           [date |-> <<"1">>, totalDuration |-> 0]>>

\* A reader of quoted CSV (RFC 4180): a field that starts with a double quote
\* runs to the next single double quote, two double quotes inside it stand
\* for one, and commas and line feeds inside it belong to the field.  mode is
\* "start" (at the start of a field), "plain" (in an unquoted field),
\* "quoted" (in a quoted field) or "quote" (after a double quote in one).
RECURSIVE ReadCSV(_, _, _, _, _)
ReadCSV(text, mode, field, row, rows) ==
    IF text = <<>> THEN Append(rows, Append(row, field))
    ELSE LET c == Head(text)
             rest == Tail(text)
         IN IF mode = "quoted"
              THEN IF c = "\""
                     THEN ReadCSV(rest, "quote", field, row, rows)
                     ELSE ReadCSV(rest, "quoted", Append(field, c), row, rows)
            ELSE IF mode = "quote" /\ c = "\""
              THEN ReadCSV(rest, "quoted", Append(field, c), row, rows)
            ELSE IF mode = "start" /\ c = "\""
              THEN ReadCSV(rest, "quoted", field, row, rows)
            ELSE IF c = ","
              THEN ReadCSV(rest, "start", <<>>, Append(row, field), rows)
            ELSE IF c = "\n"
              THEN ReadCSV(rest, "start", <<>>, <<>>,
                           Append(rows, Append(row, field)))
            ELSE ReadCSV(rest, "plain", Append(field, c), row, rows)

\* C13: the CSV export of a log of n entries, read back as quoted CSV, is the
\* header row Timestamp, Duration, Title, Notes followed by n rows in the
\* order of the log, each of four fields, the third and fourth being the
\* entry's title and notes, whatever characters these hold.
C13_CSVRoundTrip ==
    lastCall.fn = "generateCSV" =>
      LET rows == ReadCSV(lastCall.result, "start", <<>>, <<>>, <<>>)
          n == Len(savedBlocks)
      IN /\ Len(rows) = n + 1
         /\ rows[1] = <<<<"Timestamp">>, <<"Duration">>, <<"Title">>,
                        <<"Notes">>>>
         /\ \A i \in 1..n :
              /\ Len(rows[i + 1]) = 4
              /\ rows[i + 1][3] =
                   (IF savedBlocks[i].title = "" THEN <<>>
                    ELSE <<savedBlocks[i].title>>)
              /\ rows[i + 1][4] =
                   (IF savedBlocks[i].notes = "" THEN <<>>
                    ELSE <<savedBlocks[i].notes>>)

\* C14: for every d in 0..3000, formatTime(d) is d div 60 as two zero-padded
\* digits, a colon, and d mod 60 as two zero-padded digits; for a negative d
\* it is that rendering of |d| with '-' in front.
C14_FormatTime ==
    lastCall.fn = "formatTime" =>
      LET d == lastCall.result.seconds
          a == IF d < 0 THEN 0 - d ELSE d
          D == <<"0", "1", "2", "3", "4", "5", "6", "7", "8", "9">>
          m == a \div 60
          r == a % 60
          rendering == <<D[(m \div 10) + 1], D[(m % 10) + 1], ":",
                         D[(r \div 10) + 1], D[(r % 10) + 1]>>
      IN lastCall.result.text =
           (IF d < 0 THEN <<"-">> \o rendering ELSE rendering)

\* The example of the claim: formatTime(300) is "05:00".
C14_Witness ==
    /\ lastCall.fn = "formatTime"
    /\ lastCall.result.seconds = 300
    /\ lastCall.result.text = <<"0", "5", ":", "0", "0">>

\* C15: after the mount-time load a user is in memory iff the 'user' key is
\* stored, and both hold the same identifier; handleAuth sets both to the
\* submitted identifier and handleLogout clears both.
C15_UserMatchesStored ==
    /\ [](/\ (user = NoUser) <=> (localStorage.user = Absent)
          /\ user # NoUser => localStorage.user = [json |-> user])
    /\ [][/\ HandleAuth => (\E e \in Emails : user' = [email |-> e])
          /\ HandleLogout => user' = NoUser]_vars

\* The stored user "a" logged out and "b" logged in: both places hold "b".
C15_Witness ==
    /\ user = [email |-> "b"]
    /\ localStorage.user = [json |-> [email |-> "b"]]
    /\ savedBlocks = <<OldBlock>>

\* C16: a mount that finds neither key stored gives the initial state: empty
\* log, no user, 1500 s remaining, stopped, short mode.
C16_MountWithoutStoredData ==
    (/\ lastCall.fn = "mount"
     /\ localStorage.pomodoroBlocks = Absent
     /\ localStorage.user = Absent)
      => /\ savedBlocks = <<>>
         /\ user = NoUser
         /\ time = 1500
         /\ ~isRunning
         /\ ~isLongSession

\* The page was reloaded with nothing stored while the timer was running.
C16_Witness ==
    /\ lastCall.fn = "mount" /\ lastCall.wasRunning
    /\ localStorage.pomodoroBlocks = Absent
    /\ localStorage.user = Absent
    /\ savedBlocks = <<>> /\ user = NoUser

\* C17: there is at most one live interval handle, and there is one exactly
\* when the timer is running (also after the sound toggle re-ran the effect
\* while running); no tick is delivered while the timer is stopped.
C17_OneTickSource ==
    /\ [](interval = IF isRunning THEN 1 ELSE 0)
    /\ [][Tick => isRunning]_vars

\* The timer is running with the sound switched off: one handle is live.
C17_Witness ==
    /\ isRunning /\ ~isSoundEnabled
    /\ interval = 1
    /\ time = 1499

\* C18: the remaining time is always between 0 and the full length of the
\* current mode.
C18_TimeWithinLength ==
    /\ time >= 0
    /\ time <= (IF isLongSession THEN 3000 ELSE 1500)

\* A long countdown has ticked down to 0 and is still running.
C18_Witness ==
    /\ isLongSession /\ time = 0 /\ isRunning

\* C19: a running timer that gets no user event eventually has 0 s remaining
\* and is stopped, and stays so (ticks being delivered fairly).
C19_EventuallyStopsAtZero ==
    [](isRunning => <>[](time = 0 /\ ~isRunning))

\* A long countdown with the sound off has run out and stopped by itself.
C19_Witness ==
    /\ time = 0 /\ ~isRunning
    /\ isLongSession /\ ~isSoundEnabled
    /\ lastCall.fn = "playSound" /\ lastCall.by = "tick"
    /\ completions = 1

\* C20: the stored log, when the key is present, equals the log in memory;
\* a reload restores that log and the user and puts the timer back to
\* 1500 s, stopped, short mode.
C20_PersistenceRoundTrip ==
    /\ [](localStorage.pomodoroBlocks # Absent =>
            localStorage.pomodoroBlocks = [json |-> savedBlocks])
    /\ [][Reload => /\ savedBlocks' = savedBlocks
                    /\ user' = user
                    /\ time' = 1500
                    /\ ~isRunning'
                    /\ ~isLongSession']_vars

\* The page was reloaded while a long countdown was running, with a block
\* stored and "b" logged in: the block and "b" are back, the timer is fresh.
C20_Witness ==
    /\ lastCall.fn = "mount" /\ lastCall.wasRunning
    /\ savedBlocks = <<OldBlock>>
    /\ user = [email |-> "b"]
    /\ time = 1500 /\ ~isRunning /\ ~isLongSession

\* C24: for every total s of seconds a daily summary can hold,
\* formatHoursMinutes(s) is s div 3600, a colon and a two-digit minute
\* component between 00 and 59.
C24_MinutesBelowSixty ==
    lastCall.fn = "formatHoursMinutes" =>
      LET s == lastCall.result.seconds
          text == lastCall.result.text
          D == <<"0", "1", "2", "3", "4", "5", "6", "7", "8", "9">>
      IN /\ Len(text) = 4
         /\ text[1] = D[(s \div 3600) + 1]
         /\ text[2] = ":"
         /\ \E m \in 0..59 :
              /\ text[3] = D[(m \div 10) + 1]
              /\ text[4] = D[(m % 10) + 1]

\* C21: saveBlock, handleAuth, handleLogout, the sound toggle, generateCSV
\* and exportToMarkdownApp leave the remaining time, the running flag and the
\* mode unchanged; a save that directly follows a successful save appends an
\* entry of the same duration.
C21_TimerUntouched ==
    /\ [][(\/ SaveBlock
           \/ HandleAuth
           \/ HandleLogout
           \/ ToggleSound
           \/ GenerateCSV
           \/ ExportToMarkdownApp) =>
            UNCHANGED <<time, isRunning, isLongSession>>]_vars
    /\ [][(/\ SaveBlock
           /\ user # NoUser
           /\ lastCall.fn = "saveBlock"
           /\ lastCall.result = "saved") =>
            /\ Len(savedBlocks') = Len(savedBlocks) + 1
            /\ savedBlocks'[Len(savedBlocks')].duration =
                 savedBlocks[Len(savedBlocks)].duration]_vars

\* Two saves in a row while the short countdown runs at 1200 s: two entries
\* of 300 s, and the countdown still runs at 1200 s.
C21_Witness ==
    /\ lastCall.fn = "saveBlock" /\ lastCall.result = "saved"
    /\ Len(savedBlocks) = 2
    /\ savedBlocks[1].duration = 300 /\ savedBlocks[2].duration = 300
    /\ isRunning /\ time = 1200 /\ ~isLongSession
    /\ interval = 1

\* C22: the log does not belong to the user session: logout and login leave
\* the log in memory and the stored log unchanged, a save by whoever is
\* logged in appends after the entries already there, and the entry stored
\* while "a" was the user stays the first entry in every state, whoever is
\* logged in.
C22_LogSurvivesSessions ==
    /\ [](/\ savedBlocks # <<>>
          /\ savedBlocks[1] = [timestamp |-> 1, duration |-> 1500,
                               title |-> "old", notes |-> ""])
    /\ [][/\ (HandleLogout \/ HandleAuth) =>
               /\ savedBlocks' = savedBlocks
               /\ localStorage'.pomodoroBlocks = localStorage.pomodoroBlocks
          /\ (SaveBlock /\ user # NoUser) =>
               /\ Len(savedBlocks') = Len(savedBlocks) + 1
               /\ \A i \in 1..Len(savedBlocks) :
                    savedBlocks'[i] = savedBlocks[i]]_vars

\* The page was loaded with "a" and one entry stored; "a" logged out, "b"
\* logged in and saved: the stored entry is first, the entry of "b" second.
C22_Witness ==
    /\ user = [email |-> "b"]
    /\ lastCall.fn = "saveBlock" /\ lastCall.result = "saved"
    /\ Len(savedBlocks) = 2
    /\ savedBlocks[1] = OldBlock
    /\ localStorage.pomodoroBlocks = [json |-> savedBlocks]
    /\ localStorage.user = [json |-> [email |-> "b"]]

\* C23: login does not depend on the password: a submit is possible with
\* every identifier and password while nobody is logged in, the state a
\* submit leaves is the one it leaves with any other password (the user in
\* memory and in the store is the identifier alone, nothing else changes),
\* and the store never holds anything but an identifier under 'user'.
C23_PasswordIndependent ==
    /\ [](user = NoUser =>
            \A e \in Emails, p \in Passwords : ENABLED Submit(e, p))
    /\ [](\/ localStorage.user = [absent |-> TRUE]
          \/ \E e \in Emails : localStorage.user = [json |-> [email |-> e]])
    /\ [][HandleAuth =>
            \E e \in Emails :
              /\ \A p \in Passwords : Submit(e, p)
              /\ user' = [email |-> e]
              /\ localStorage' =
                   [localStorage EXCEPT !.user = [json |-> [email |-> e]]]
              /\ UNCHANGED <<time, isRunning, isLongSession, title, notes,
                             savedBlocks, isSoundEnabled, interval>>]_vars

\* "b" logged in on a first visit while the timer was running: the store
\* holds the identifier and nothing else.
C23_Witness ==
    /\ user = [email |-> "b"]
    /\ localStorage = [pomodoroBlocks |-> [absent |-> TRUE],
                       user |-> [json |-> [email |-> "b"]]]
    /\ isRunning /\ time = 1499

====
